---- MODULE Spec2Model ----
(***************************************************************************)
(* A model of the harbor peer node (src/src/peer.rs, protocol.rs,          *)
(* transport.rs, lib.rs, main.rs): the Peer object, its PeerStore behind   *)
(* one Mutex, start/bootstrap/send_pings on the calling thread, and the    *)
(* worker thread that handle_conn spawns and joins for every accepted      *)
(* connection.  Remote parties (clients that dial this node, nodes this    *)
(* node dials) are the environment.                                        *)
(***************************************************************************)
EXTENDS Integers, Sequences, FiniteSets, TLC

\* Bounds of the model.
MaxConns == 2        \* inbound connections ever opened to the listener
MaxLines == 2        \* length of the generated bootstrap files

\* lib.rs: pub const MAX_PEERS: u8 = 32
MAX_PEERS == 32

None == "None"

(***************************************************************************)
(* PeerId (peer.rs 24-81).  An Ipv4Addr is its 32-bit value, a String is   *)
(* the sequence of the pieces format! puts together.                       *)
(***************************************************************************)
Ipv4(a, b, c, d) == ((a * 256 + b) * 256 + c) * 256 + d

\* util::hash_sha256: an injective digest of its input
hash_sha256(data) == <<"sha256", data>>

\* PeerId::new: id = "/peer/{hash}/{ip}/{port}", hash over "{ip}:{port}"
PeerId_new(ip, port) ==
    [id   |-> <<"/peer/", hash_sha256(<<ip, ":", port>>), "/", ip, "/", port>>,
     ip   |-> ip,
     port |-> port]

\* impl PartialEq for PeerId: the id strings alone are compared
PeerId_eq(a, b) == a.id = b.id

\* PeerId::to_string: the id string
PeerId_to_string(p) == p.id

\* PeerId::as_socket: "{ip}:{port}"
PeerId_as_socket(p) == <<p.ip, ":", p.port>>

\* The identities of the model: this node, two remote peers by name, and
\* the peers 10.0.1.k:9000 that fill a long bootstrap file.
LocalIp == Ipv4(10, 0, 0, 5)
SelfId == PeerId_new(LocalIp, 3301)
PeerA == PeerId_new(Ipv4(10, 0, 0, 1), 9000)
PeerB == PeerId_new(Ipv4(10, 0, 0, 2), 9001)
FillPeer(k) == PeerId_new(Ipv4(10, 0, 1, k), 9000)

(***************************************************************************)
(* PeerStoreEntry and the PeerStore, a HashSet of entries (peer.rs 37-44,  *)
(* 84-101).                                                                *)
(***************************************************************************)
PeerStoreEntry_new(id) == [last_seen |-> None, id |-> id]

\* impl PartialEq for PeerStoreEntry: the PeerIds alone are compared
PeerStoreEntry_eq(a, b) == PeerId_eq(a.id, b.id)

\* (a changed insert that never finds an equal value)
HashSet_insert_AlwaysNew(set, e) == [set |-> set \cup {e}, ret |-> TRUE]

\* HashSet::insert: adds the value unless an equal one is present, and
\* returns whether it was added
HashSet_insert(set, e) ==
    IF \E m \in set : PeerStoreEntry_eq(m, e)
    THEN [set |-> set, ret |-> FALSE]
    ELSE [set |-> set \cup {e}, ret |-> TRUE]

\* HashSet::get: the stored entry equal to e, or None
HashSet_get(set, e) ==
    IF \E m \in set : PeerStoreEntry_eq(m, e)
    THEN CHOOSE m \in set : PeerStoreEntry_eq(m, e)
    ELSE None

\* (a changed add_peer that lacks the check against self.id)
add_peer_NoSelfCheck(store, self, new_peer) ==
    HashSet_insert(store, PeerStoreEntry_new(new_peer))

\* Peer::add_peer on the locked store: the new store and the returned bool
add_peer(store, self, new_peer) ==
    IF PeerId_eq(new_peer, self)
    THEN [set |-> store, ret |-> FALSE]
    ELSE HashSet_insert(store, PeerStoreEntry_new(new_peer))

Ids(store) == {e.id : e \in store}
Member(store, p) == \E e \in store : PeerId_eq(e.id, p)

\* NetworkError::NoRoute(PeerId)
NoRoute(p) == [tag |-> "NoRoute", fields |-> <<p>>]

\* Option<PeerId>, the return type of router
Some(p) == [tag |-> "Some", fields |-> <<p>>]
NoneOption == [tag |-> "None", fields |-> <<>>]

\* Peer::router on the locked store: Some(self.id) for the node itself,
\* else peers.get(&PeerStoreEntry::new(peer)).cloned().map(|p| p.id)
router(store, self, peer) ==
    IF PeerId_eq(peer, self)
    THEN Some(self)
    ELSE IF Member(store, peer)
         THEN Some(HashSet_get(store, PeerStoreEntry_new(peer)).id)
         ELSE NoneOption

(***************************************************************************)
(* The bootstrap file (peer.rs 165-189).  A line of text is a sequence of  *)
(* tokens: the text of an IPv4 address, the decimal text of a number, a    *)
(* ':' or any other word.  A line the reader could not decode is given as  *)
(* ReadErr (the Err item of io::Lines).                                    *)
(***************************************************************************)
TokIp(v) == [kind |-> "ip", val |-> v]
TokNum(n) == [kind |-> "num", val |-> n]
TokWord == [kind |-> "word", val |-> 0]
TokColon == [kind |-> "colon", val |-> 0]

HostLine(ip, port) == [ok |-> TRUE, text |-> <<TokIp(ip), TokColon, TokNum(port)>>]
IdLine(p) == HostLine(p.ip, p.port)
ReadErr == [ok |-> FALSE, text |-> <<>>]

\* str::split(":"): the pieces between the separators, one more than the
\* number of separators
RECURSIVE SplitFrom(_, _, _)
SplitFrom(text, i, cur) ==
    IF i > Len(text) THEN <<cur>>
    ELSE IF text[i].kind = "colon"
         THEN <<cur>> \o SplitFrom(text, i + 1, <<>>)
         ELSE SplitFrom(text, i + 1, Append(cur, text[i]))

\* (a changed split that finds no separator)
Split_NoSeparator(text) == <<text>>

Split(text) == SplitFrom(text, 1, <<>>)

\* The value that is no address and no port
ParseFail == 0 - 1

\* str::parse::<Ipv4Addr>: the address, or ParseFail
ParseIpv4(field) ==
    IF Len(field) = 1 /\ field[1].kind = "ip" THEN field[1].val ELSE ParseFail

\* str::parse::<u16>: the number when it fits 16 bits, or ParseFail
ParseU16(field) ==
    IF Len(field) = 1 /\ field[1].kind = "num" /\ field[1].val \in 0..65535
    THEN field[1].val
    ELSE ParseFail

\* What bootstrap does with one line: skip it, panic on it (an unwrap of a
\* failed parse), or add the PeerId it names
LineOutcome(line) ==
    IF ~line.ok THEN [kind |-> "skip"]
    ELSE LET data == Split(line.text) IN
         IF Len(data) # 2 THEN [kind |-> "skip"]
         ELSE IF ParseIpv4(data[1]) = ParseFail \/ ParseU16(data[2]) = ParseFail
              THEN [kind |-> "panic"]
              ELSE [kind |-> "add",
                    id |-> PeerId_new(ParseIpv4(data[1]), ParseU16(data[2]))]

\* The lines the generated files are made of
BadLine == [ok |-> TRUE, text |-> <<TokWord>>]
ThreeFields == [ok |-> TRUE,
                text |-> <<TokIp(PeerA.ip), TokColon, TokNum(9000), TokColon, TokNum(1)>>]
BadIp == [ok |-> TRUE, text |-> <<TokWord, TokColon, TokNum(9000)>>]
BadPort == [ok |-> TRUE, text |-> <<TokIp(PeerA.ip), TokColon, TokNum(70000)>>]

LineAlphabet ==
    <<IdLine(PeerA), IdLine(PeerB), IdLine(SelfId), BadLine, ThreeFields,
      BadIp, BadPort, ReadErr>>

\* Every file of at most MaxLines lines over the alphabet, as index tuples
RECURSIVE FilesOfLen(_)
FilesOfLen(n) ==
    IF n = 0 THEN {<<>>}
    ELSE {Append(f, k) : f \in FilesOfLen(n - 1), k \in 1..Len(LineAlphabet)}

GenFiles == UNION {FilesOfLen(n) : n \in 0..MaxLines}
FileLines(f) == [i \in 1..Len(f) |-> LineAlphabet[f[i]]]

\* The example of the documentation: two hosts around a malformed line
ExampleFile == <<IdLine(PeerA), BadLine, IdLine(PeerB)>>

\* A file naming one peer more than MAX_PEERS
LongFile == [k \in 1..(MAX_PEERS + 1) |-> IdLine(FillPeer(k))]

(***************************************************************************)
(* The wire codec (bincode over the derived Serialize/Deserialize of       *)
(* protocol.rs 16-79): a value is written as its variant index followed by *)
(* its fields; a PeerId field is written as its three fields.              *)
(***************************************************************************)
RequestTags ==
    <<"Ping", "Identity", "List", "PeerStore", "Join", "QueryKey",
      "RespondKey", "Get", "SyncPeers", "Leave">>
ResponseTags == <<"Ok", "Err", "Msg", "Pong", "Identity", "List", "PeerStore">>

\* How many fields each Request variant carries, and which is a PeerId
RequestArity == <<0, 0, 0, 0, 1, 2, 2, 1, 1, 1>>
RequestPeerField == <<0, 0, 0, 0, 1, 0, 1, 0, 0, 1>>

VariantIndex(tags, tag) == (CHOOSE i \in 1..Len(tags) : tags[i] = tag) - 1

EncodePeerId(p) == <<p.id, p.ip, p.port>>
DecodePeerId(w) == [id |-> w[1], ip |-> w[2], port |-> w[3]]

Ping == [tag |-> "Ping", fields |-> <<>>]
Identity == [tag |-> "Identity", fields |-> <<>>]
List == [tag |-> "List", fields |-> <<>>]
PeerStoreReq == [tag |-> "PeerStore", fields |-> <<>>]
Join(p) == [tag |-> "Join", fields |-> <<p>>]
Leave(p) == [tag |-> "Leave", fields |-> <<p>>]
QueryKey == [tag |-> "QueryKey", fields |-> <<"key", 1>>]
RespondKey(p) == [tag |-> "RespondKey", fields |-> <<p, "key">>]
Get == [tag |-> "Get", fields |-> <<"key">>]
SyncPeers == [tag |-> "SyncPeers", fields |-> <<1>>]

\* bincode::serialize of a Request
SerializeRequest(req) ==
    LET v == VariantIndex(RequestTags, req.tag)
        pf == RequestPeerField[v + 1]
    IN [variant |-> v,
        body |-> [i \in 1..Len(req.fields) |->
                    IF i = pf THEN EncodePeerId(req.fields[i]) ELSE req.fields[i]]]

DecodeError == [tag |-> "DecodeError", fields |-> <<>>]

\* bincode::deserialize::<Request>: the Request, or DecodeError when the
\* bytes are empty, name no variant or do not hold the variant's fields
DeserializeRequest(bytes) ==
    IF bytes.variant \notin 0..(Len(RequestTags) - 1) THEN DecodeError
    ELSE IF Len(bytes.body) # RequestArity[bytes.variant + 1] THEN DecodeError
    ELSE LET pf == RequestPeerField[bytes.variant + 1] IN
         [tag |-> RequestTags[bytes.variant + 1],
          fields |-> [i \in 1..Len(bytes.body) |->
                        IF i = pf THEN DecodePeerId(bytes.body[i]) ELSE bytes.body[i]]]

\* Bytes that are no Request: nothing at all (the client closed without
\* writing) and an unknown variant index
EmptyBytes == [variant |-> -1, body |-> <<>>]
GarbageBytes == [variant |-> Len(RequestTags), body |-> <<>>]

Pong == [tag |-> "Pong", fields |-> <<>>]
Msg(text) == [tag |-> "Msg", fields |-> <<text>>]
ErrFail(text) == [tag |-> "Err", fields |-> <<<<"Fail", text>>>>]
PeerStoreResp(store) == [tag |-> "PeerStore", fields |-> <<store>>]

\* bincode::serialize of a Response, and the client's deserialize of it
SerializeResponse(res) ==
    [variant |-> VariantIndex(ResponseTags, res.tag), body |-> res.fields]
DeserializeResponse(bytes) ==
    [tag |-> ResponseTags[bytes.variant + 1], fields |-> bytes.body]

(***************************************************************************)
(* Transport (transport.rs 21-34).  TcpStream::connect takes the address   *)
(* as text and resolves it: only "ip:port" text names a socket address.    *)
(***************************************************************************)
ToSocketAddrs(text) ==
    IF Len(text) = 3 /\ text[2] = ":"
    THEN [ok |-> TRUE, ip |-> text[1], port |-> text[3]]
    ELSE [ok |-> FALSE, ip |-> 0, port |-> 0]

\* The address text send_request hands to TcpStream::connect
DialAddress(to_peer) == PeerId_to_string(to_peer)

\* send_ping = send_request(to, Ping) then handle_response: "Pong" when
\* the dial succeeds and the live node answers, "Err" when the dial fails
send_ping(to, live) ==
    LET addr == ToSocketAddrs(DialAddress(to)) IN
    IF addr.ok /\ live /\ addr.ip = to.ip /\ addr.port = to.port
    THEN "Pong"
    ELSE "Err"

(***************************************************************************)
(* Protocol handlers as handle_conn runs them (protocol.rs 109-155,        *)
(* peer.rs 223-241), on the store the worker has locked.  A handler gives  *)
(* the new store, the bool its add returned ("none" when it adds nothing)  *)
(* and the Response it writes.  handle_conn hands the handler the guard   *)
(* it holds (peer.rs 234, 238), so the handler's reads and its add are     *)
(* inside the critical section opened at peer.rs 220.                      *)
(***************************************************************************)
BoolText(b) == IF b THEN "true" ELSE "false"

\* (a changed handle_ping that records a peer in the store)
handle_ping_AddsPeer(store) ==
    [set |-> store \cup {PeerStoreEntry_new(PeerB)}, ret |-> "none", res |-> Pong]

handle_ping(store) == [set |-> store, ret |-> "none", res |-> Pong]

\* (a changed handle_peerstore that leaves an entry out of the copy)
handle_peerstore_Partial(store) ==
    [set |-> store,
     ret |-> "none",
     res |-> PeerStoreResp(IF store = {} THEN {} ELSE store \ {CHOOSE e \in store : TRUE})]

\* handle_peerstore: Response::PeerStore(peers.clone())
handle_peerstore(store) == [set |-> store, ret |-> "none", res |-> PeerStoreResp(store)]

\* handle_join: add_peer(self.id.clone()); true answers "peer already
\* joined", false answers "join success"; new_peer is not used
handle_join(store, self, new_peer) ==
    LET r == add_peer(store, self, self) IN
    [set |-> r.set,
     ret |-> BoolText(r.ret),
     res |-> IF r.ret THEN ErrFail("peer already joined") ELSE Msg("join success")]

\* The match of handle_conn: Ping, Join and PeerStore have an arm, every
\* other variant reaches todo!()
Dispatched(req) == req.tag \in {"Ping", "Join", "PeerStore"}

Handle(store, self, req) ==
    CASE req.tag = "Ping" -> handle_ping(store)
      [] req.tag = "Join" -> handle_join(store, self, req.fields[1])
      [] req.tag = "PeerStore" -> handle_peerstore(store)

(***************************************************************************)
(* State.                                                                  *)
(***************************************************************************)
VARIABLES
    peers,       \* Peer.peers: the PeerStore inside the Mutex
    lockHolder,  \* who holds the Mutex: "none", "main" or "worker"
    mpc,         \* where the thread that owns the Peer is
    started,     \* start has been called
    sendPings,   \* the send_pings argument of start
    lines,       \* bootstrap: the lines of the file not yet read
    count,       \* bootstrap: count
    lastAdd,     \* the latest add_peer call: caller, argument, result
    lastRoute,   \* the latest router call: argument, result
    boot,        \* bootstrap: the file it reads and the store it started on
    listening,   \* the TcpListener of start is bound
    pingTodo,    \* send_pings: the ids the iteration has not reached
    lastPing,    \* the latest send_ping: target, whether it was live, result
    conns,       \* the connections clients opened to the listener
    wpc,         \* where the worker thread of handle_conn is
    wconn,       \* the connection the worker owns
    wbuf,        \* the bytes the worker read
    wreq,        \* the Request the worker decoded
    wout,        \* the result of the handler the worker ran
    wres,        \* how the worker thread ended: "ok", "err" or "panic"
    served       \* per connection: the request dispatched, the store before
                 \* its handler, the bool its add returned, how the worker ended

vars ==
    <<peers, lockHolder, mpc, started, sendPings, lines, count, lastAdd,
      lastRoute, boot, listening, pingTodo, lastPing, conns, wpc, wconn, wbuf,
      wreq, wout, wres, served>>

Conns == 1..MaxConns

NoConn == [st |-> "unused", sent |-> FALSE, reset |-> FALSE, inbuf |-> EmptyBytes,
           out |-> FALSE, outbuf |-> EmptyBytes]
NotServed == [end |-> "none", req |-> DecodeError, pre |-> {}, ret |-> "none"]
NoAdd == [by |-> "none", id |-> SelfId, ret |-> FALSE]
NoOut == [set |-> {}, ret |-> "none", res |-> Pong]
NoRouteCall == [called |-> FALSE, peer |-> SelfId, result |-> NoneOption]
NoBoot == [file |-> <<>>, pre |-> {}]

\* Peer::new: an empty PeerStore; nothing runs yet
Init ==
    /\ peers = {}
    /\ lockHolder = "none"
    /\ mpc = "idle"
    /\ started = FALSE
    /\ sendPings = FALSE
    /\ lines = <<>>
    /\ count = 0
    /\ lastAdd = NoAdd
    /\ lastRoute = NoRouteCall
    /\ boot = NoBoot
    /\ listening = FALSE
    /\ pingTodo = {}
    /\ lastPing = [to |-> SelfId, live |-> FALSE, result |-> "none"]
    /\ conns = [c \in Conns |-> NoConn]
    /\ wpc = "none"
    /\ wconn = 0
    /\ wbuf = EmptyBytes
    /\ wreq = DecodeError
    /\ wout = NoOut
    /\ wres = "ok"
    /\ served = [c \in Conns |-> NotServed]

\* The record of an add_peer call; NoAdd once its caller has moved on
AddRecord(by, id, r) == [by |-> by, id |-> id, ret |-> r.ret]

\* The listener is dropped: connections still in its backlog are reset
DropListener(cs) ==
    [c \in Conns |-> IF cs[c].st = "queued" THEN [NoConn EXCEPT !.st = "refused"] ELSE cs[c]]

mainVars ==
    <<mpc, started, sendPings, lines, count, listening, pingTodo, lastPing,
      lastRoute, boot>>
workerVars == <<wpc, wconn, wbuf, wreq, wout, wres, served>>

(***************************************************************************)
(* The thread that owns the Peer: add_peer, start, bootstrap, send_pings   *)
(* and the accept loop (peer.rs 128-205).                                  *)
(***************************************************************************)
\* The callers' inputs
ApiIds == {SelfId, PeerA}
RouteIds == {SelfId, PeerA, PeerB}
BootFiles == <<ExampleFile, LongFile>>

\* start returns Err to its caller: the listener is dropped
StartReturnsErr ==
    /\ mpc' = "idle"
    /\ listening' = FALSE
    /\ conns' = DropListener(conns)

\* A panic unwinds the thread that owns the Peer
MainPanics ==
    /\ mpc' = "panicked"
    /\ listening' = FALSE
    /\ conns' = DropListener(conns)

\* A caller that holds the Peer calls add_peer(x)
ApiAddPeer(x) ==
    /\ mpc = "idle"
    /\ lockHolder = "none"
    /\ LET r == add_peer(peers, SelfId, x) IN
       /\ peers' = r.set
       /\ lastAdd' = AddRecord("api", x, r)
    /\ lastRoute' = NoRouteCall
    /\ UNCHANGED <<lockHolder, mpc, started, sendPings, lines, count,
                   listening, pingTodo, lastPing, boot, conns, workerVars>>

\* A caller that holds the Peer calls router(peer): the store is locked
\* for the lookup and released when the temporary guard is dropped
RouterCall(peer) ==
    /\ mpc = "idle"
    /\ lockHolder = "none"
    /\ lastRoute' = [called |-> TRUE, peer |-> peer,
                     result |-> router(peers, SelfId, peer)]
    /\ lastAdd' = NoAdd
    /\ UNCHANGED <<peers, lockHolder, mpc, started, sendPings, lines, count,
                   listening, pingTodo, lastPing, boot, conns, workerVars>>

\* (a changed start that binds the listener before bootstrap runs)
Start_BindFirst(send_pings, file) ==
    /\ mpc = "idle"
    /\ ~started
    /\ started' = TRUE
    /\ sendPings' = send_pings
    /\ lines' = file
    /\ count' = 0
    /\ mpc' = "bootstrap"
    /\ listening' = TRUE
    /\ lastAdd' = NoAdd
    /\ lastRoute' = NoRouteCall
    /\ boot' = [file |-> file, pre |-> peers]
    /\ UNCHANGED <<peers, lockHolder, pingTodo, lastPing, conns, workerVars>>

\* start(send_pings) is called, once per Peer as main.rs does; bootstrap
\* opens the file (an absent file gives no lines)
Start(send_pings, file) ==
    /\ mpc = "idle"
    /\ ~started
    /\ started' = TRUE
    /\ sendPings' = send_pings
    /\ lines' = file
    /\ count' = 0
    /\ mpc' = "bootstrap"
    /\ lastAdd' = NoAdd
    /\ lastRoute' = NoRouteCall
    /\ boot' = [file |-> file, pre |-> peers]
    /\ UNCHANGED <<peers, lockHolder, listening, pingTodo, lastPing, conns,
                   workerVars>>

StartAny ==
    \E send_pings \in BOOLEAN :
        \/ \E f \in GenFiles : Start(send_pings, FileLines(f))
        \/ \E i \in 1..Len(BootFiles) : Start(send_pings, BootFiles[i])

\* bootstrap: a line that is skipped (unreadable, or not two fields)
BootstrapSkip ==
    /\ mpc = "bootstrap"
    /\ lines # <<>>
    /\ LineOutcome(Head(lines)).kind = "skip"
    /\ lines' = Tail(lines)
    /\ UNCHANGED <<peers, lockHolder, mpc, started, lastRoute, boot, sendPings, count, lastAdd,
                   listening, pingTodo, lastPing, conns, workerVars>>

\* bootstrap: two fields, one of which does not parse: unwrap panics
BootstrapPanic ==
    /\ mpc = "bootstrap"
    /\ lines # <<>>
    /\ LineOutcome(Head(lines)).kind = "panic"
    /\ MainPanics
    /\ UNCHANGED <<peers, lockHolder, started, lastRoute, boot,
                   sendPings, lines, count, lastAdd,
                   pingTodo, lastPing, workerVars>>

\* bootstrap: count += add_peer(id) as i32
BootstrapAdd ==
    /\ mpc = "bootstrap"
    /\ lines # <<>>
    /\ LineOutcome(Head(lines)).kind = "add"
    /\ lockHolder = "none"
    /\ LET id == LineOutcome(Head(lines)).id
           r == add_peer(peers, SelfId, id)
       IN /\ peers' = r.set
          /\ lastAdd' = AddRecord("bootstrap", id, r)
          /\ count' = count + (IF r.ret THEN 1 ELSE 0)
    /\ lines' = Tail(lines)
    /\ UNCHANGED <<lockHolder, mpc, started, lastRoute, boot,
                   sendPings, listening, pingTodo,
                   lastPing, conns, workerVars>>

\* bootstrap returns Ok(count)
BootstrapDone ==
    /\ mpc = "bootstrap"
    /\ lines = <<>>
    /\ mpc' = "bind"
    /\ UNCHANGED <<peers, lockHolder, started, lastRoute, boot,
                   sendPings, lines, count, lastAdd,
                   listening, pingTodo, lastPing, conns, workerVars>>

\* TcpListener::bind succeeds; the count bootstrap returned is discarded
\* and send_pings is tested (both are dead from here on)
Bind ==
    /\ mpc = "bind"
    /\ listening' = TRUE
    /\ mpc' = IF sendPings THEN "pings" ELSE "accept"
    /\ sendPings' = FALSE
    /\ count' = 0
    /\ lastAdd' = NoAdd
    /\ boot' = NoBoot
    /\ UNCHANGED <<peers, lockHolder, started, lastRoute, lines, pingTodo,
                   lastPing, conns, workerVars>>

\* TcpListener::bind fails (the port is taken): start returns the error
BindFails ==
    /\ mpc = "bind"
    /\ StartReturnsErr
    /\ sendPings' = FALSE
    /\ count' = 0
    /\ lastAdd' = NoAdd
    /\ boot' = NoBoot
    /\ UNCHANGED <<peers, lockHolder, started, lastRoute, lines, pingTodo,
                   lastPing, workerVars>>

\* send_pings: lock the store and start iterating it
SendPingsLock ==
    /\ mpc = "pings"
    /\ lockHolder = "none"
    /\ lockHolder' = "main"
    /\ pingTodo' = Ids(peers)
    /\ mpc' = "pinging"
    /\ UNCHANGED <<peers, started, lastRoute, boot,
                   sendPings, lines, count, lastAdd, listening,
                   lastPing, conns, workerVars>>

\* send_pings: send_ping(&id)? for the next id of the iteration, the lock
\* still held; an Err ends send_pings and start
SendPingsNext ==
    /\ mpc = "pinging"
    /\ \E to \in pingTodo, live \in BOOLEAN :
        LET result == send_ping(to, live) IN
        /\ lastPing' = [to |-> to, live |-> live, result |-> result]
        /\ IF result = "Pong"
           THEN /\ pingTodo' = pingTodo \ {to}
                /\ UNCHANGED <<lockHolder, mpc, listening, conns>>
           ELSE /\ pingTodo' = {}
                /\ lockHolder' = "none"
                /\ StartReturnsErr
    /\ UNCHANGED <<peers, started, lastRoute, boot,
                   sendPings, lines, count, lastAdd, workerVars>>

\* send_pings returns Ok(()): the guard is dropped, the accept loop starts
SendPingsDone ==
    /\ mpc = "pinging"
    /\ pingTodo = {}
    /\ lockHolder' = "none"
    /\ mpc' = "accept"
    /\ UNCHANGED <<peers, started, lastRoute, boot,
                   sendPings, lines, count, lastAdd, listening,
                   pingTodo, lastPing, conns, workerVars>>

\* The connection at the head of the listener's backlog
Queued == {c \in Conns : conns[c].st = "queued"}
HeadOfBacklog(c) == c \in Queued /\ \A d \in Queued : c <= d

\* socket.incoming() yields a stream; handle_conn spawns the worker and
\* waits in join()
Accept(c) ==
    /\ mpc = "accept"
    /\ HeadOfBacklog(c)
    /\ conns' = [conns EXCEPT ![c].st = "accepted"]
    /\ wpc' = "read"
    /\ wconn' = c
    /\ mpc' = "join"
    /\ UNCHANGED <<peers, lockHolder, started, lastRoute, boot,
                   sendPings, lines, count, lastAdd,
                   listening, pingTodo, lastPing, wbuf, wreq, wout, wres, served>>

\* socket.incoming() yields an error: stream? returns it from start
AcceptFails ==
    /\ mpc = "accept"
    /\ StartReturnsErr
    /\ UNCHANGED <<peers, lockHolder, started, lastRoute, boot,
                   sendPings, lines, count, lastAdd,
                   pingTodo, lastPing, workerVars>>

\* handle_conn: .join().unwrap() once the worker has ended.  Ok goes back
\* to the accept loop, Err is returned through start by the two ?s, a
\* panic of the worker makes unwrap panic
JoinWorker ==
    /\ mpc = "join"
    /\ wpc = "exit"
    /\ wpc' = "none"
    /\ CASE wres = "ok" -> /\ mpc' = "accept"
                           /\ UNCHANGED <<listening, conns>>
         [] wres = "err" -> StartReturnsErr
         [] wres = "panic" -> MainPanics
    /\ UNCHANGED <<peers, lockHolder, started, lastRoute, boot,
                   sendPings, lines, count, lastAdd,
                   pingTodo, lastPing, wconn, wbuf, wreq, wout, wres, served>>

(***************************************************************************)
(* The worker thread of handle_conn (peer.rs 212-244).                     *)
(***************************************************************************)
\* The thread ends: its MutexGuard and its TcpStream are dropped
WorkerEnds(result) ==
    /\ wpc' = "exit"
    /\ wres' = result
    /\ lockHolder' = "none"
    /\ wbuf' = EmptyBytes
    /\ wreq' = DecodeError
    /\ wout' = NoOut
    /\ lastAdd' = NoAdd

\* conn.read(&mut buf)?: blocks until the client has written or closed; a
\* reset connection makes read fail and ? returns the error
WorkerRead ==
    /\ wpc = "read"
    /\ \/ /\ conns[wconn].sent
          /\ wbuf' = conns[wconn].inbuf
          /\ wpc' = "decode"
          /\ conns' = [conns EXCEPT ![wconn].inbuf = EmptyBytes]
          /\ UNCHANGED <<lockHolder, wres, wreq, wout, lastAdd, served>>
       \/ /\ conns[wconn].reset
          /\ WorkerEnds("err")
          /\ conns' = [conns EXCEPT ![wconn].st = "closed"]
          /\ served' = [served EXCEPT ![wconn].end = "read_err"]
    /\ UNCHANGED <<peers, mainVars, wconn>>

\* bincode::deserialize::<Request>(&buf[0..len]).unwrap()
WorkerDecode ==
    /\ wpc = "decode"
    /\ LET request == DeserializeRequest(wbuf) IN
       IF request = DecodeError
       THEN /\ WorkerEnds("panic")
            /\ conns' = [conns EXCEPT ![wconn].st = "closed"]
            /\ served' = [served EXCEPT ![wconn].end = "decode_panic"]
       ELSE /\ wreq' = request
            /\ wpc' = "lock"
            /\ UNCHANGED <<lockHolder, wres, conns, wbuf, wout, lastAdd, served>>
    /\ UNCHANGED <<peers, mainVars, wconn>>

\* let mut peers = peers.lock().unwrap()
WorkerLock ==
    /\ wpc = "lock"
    /\ lockHolder = "none"
    /\ lockHolder' = "worker"
    /\ wpc' = "dispatch"
    /\ UNCHANGED <<peers, mainVars, lastAdd, conns, wconn, wbuf, wreq, wout,
                   wres, served>>

\* match &request: the handler of the variant runs on the locked store and
\* builds its Response; a variant without an arm reaches todo!()
WorkerDispatch ==
    /\ wpc = "dispatch"
    /\ IF Dispatched(wreq)
       THEN LET h == Handle(peers, SelfId, wreq) IN
            /\ peers' = h.set
            /\ wout' = h
            /\ lastAdd' = IF wreq.tag = "Join"
                          THEN AddRecord("join", SelfId, [ret |-> h.ret = "true"])
                          ELSE lastAdd
            /\ served' = [served EXCEPT ![wconn] =
                            [end |-> "none", req |-> wreq, pre |-> peers, ret |-> h.ret]]
            /\ wpc' = "respond"
            /\ UNCHANGED <<lockHolder, wres, conns, wbuf, wreq>>
       ELSE /\ WorkerEnds("panic")
            /\ conns' = [conns EXCEPT ![wconn].st = "closed"]
            /\ served' = [served EXCEPT ![wconn].end = "todo_panic", ![wconn].req = wreq]
            /\ UNCHANGED peers
    /\ UNCHANGED <<mainVars, wconn>>

\* send_response: serialize and conn.write, the lock still held; then the
\* handler and the thread return.  A failed write is returned as Err
WorkerRespond ==
    /\ wpc = "respond"
    /\ \E written \in BOOLEAN :
        IF written
        THEN /\ conns' = [conns EXCEPT ![wconn] =
                            [@ EXCEPT !.out = TRUE,
                                      !.outbuf = SerializeResponse(wout.res),
                                      !.st = "closed"]]
             /\ served' = [served EXCEPT ![wconn].end = "ok"]
             /\ WorkerEnds("ok")
        ELSE /\ conns' = [conns EXCEPT ![wconn].st = "closed"]
             /\ served' = [served EXCEPT ![wconn].end = "write_err"]
             /\ WorkerEnds("err")
    /\ UNCHANGED <<peers, mainVars, wconn>>

(***************************************************************************)
(* Clients: remote parties that dial the listener.                         *)
(***************************************************************************)
\* What the clients of the model write: every variant of Request, and
\* bytes that are no Request
ClientPayloads ==
    <<SerializeRequest(Ping), SerializeRequest(PeerStoreReq),
      SerializeRequest(Join(PeerA)), SerializeRequest(Join(PeerB)),
      SerializeRequest(Join(SelfId)), SerializeRequest(Identity),
      SerializeRequest(List), SerializeRequest(Leave(PeerA)),
      SerializeRequest(QueryKey), SerializeRequest(RespondKey(PeerA)),
      SerializeRequest(Get), SerializeRequest(SyncPeers),
      GarbageBytes>>

\* A client connects: the connection waits in the listener's backlog
ClientConnect(c) ==
    /\ listening
    /\ conns[c].st = "unused"
    /\ \A d \in Conns : d < c => conns[d].st # "unused"
    /\ conns' = [conns EXCEPT ![c].st = "queued"]
    /\ UNCHANGED <<peers, lockHolder, mainVars, lastAdd, workerVars>>

\* The client writes its bytes.  Bytes reach the node only through the
\* read of the accepted stream, so a write made while the connection
\* waits in the backlog is taken as made once it has been accepted
ClientSend(c, bytes) ==
    /\ conns[c].st = "accepted"
    /\ ~conns[c].sent
    /\ ~conns[c].reset
    /\ conns' = [conns EXCEPT ![c].sent = TRUE, ![c].inbuf = bytes]
    /\ UNCHANGED <<peers, lockHolder, mainVars, lastAdd, workerVars>>

\* The client's connection is reset before it wrote anything
ClientReset(c) ==
    /\ conns[c].st \in {"queued", "accepted"}
    /\ ~conns[c].sent
    /\ ~conns[c].reset
    /\ conns' = [conns EXCEPT ![c].reset = TRUE]
    /\ UNCHANGED <<peers, lockHolder, mainVars, lastAdd, workerVars>>

Next ==
    \/ \E x \in ApiIds : ApiAddPeer(x)
    \/ \E d \in RouteIds : RouterCall(d)
    \/ StartAny
    \/ BootstrapSkip
    \/ BootstrapPanic
    \/ BootstrapAdd
    \/ BootstrapDone
    \/ Bind
    \/ BindFails
    \/ SendPingsLock
    \/ SendPingsNext
    \/ SendPingsDone
    \/ \E c \in Conns : Accept(c)
    \/ AcceptFails
    \/ JoinWorker
    \/ WorkerRead
    \/ WorkerDecode
    \/ WorkerLock
    \/ WorkerDispatch
    \/ WorkerRespond
    \/ \E c \in Conns : ClientConnect(c)
    \/ \E c \in Conns, i \in 1..Len(ClientPayloads) : ClientSend(c, ClientPayloads[i])
    \/ \E c \in Conns : ClientReset(c)

Spec == Init /\ [][Next]_vars

(***************************************************************************)
(* Properties.                                                             *)
(***************************************************************************)
\* What a client reads from its connection
ResponseOf(c) == DeserializeResponse(conns[c].outbuf)
JoinSuccess == Msg("join success")
AlreadyJoined == ErrFail("peer already joined")

\* The Join requests that were answered, and the identity each carried
AnsweredJoin(c) == served[c].end = "ok" /\ served[c].req.tag = "Join"
JoinId(c) == served[c].req.fields[1]

\* The store holds no two entries with the same identity
UniqueIds(store) == \A a, b \in store : PeerStoreEntry_eq(a, b) => a = b

\* C1: self-exclusion: the store never holds the local identity, and every
\* add_peer call whose argument is the local identity returned false.
C1_SelfExclusion ==
    /\ ~Member(peers, SelfId)
    /\ (lastAdd.by # "none" /\ PeerId_eq(lastAdd.id, SelfId)) => ~lastAdd.ret

\* A caller added the local identity to a store that holds a peer
C1_Witness ==
    /\ lastAdd.by = "api"
    /\ PeerId_eq(lastAdd.id, SelfId)
    /\ peers # {}

\* C2: capacity: the store never holds more than MAX_PEERS entries.
C2_Capacity == Cardinality(peers) <= MAX_PEERS

\* C3: a Join(x) that was handled with x not the local identity, x not a
\* member and the store below capacity leaves x a member of the store.
C3_JoinInserts ==
    \A c \in Conns :
        (/\ AnsweredJoin(c)
         /\ ~PeerId_eq(JoinId(c), SelfId)
         /\ ~Member(served[c].pre, JoinId(c))
         /\ Cardinality(served[c].pre) < MAX_PEERS)
        => Member(peers, JoinId(c))

\* C4: a Join(x) is answered "join success" exactly when its add returned
\* true, and "peer already joined" when x was a member before.
C4_JoinResponse ==
    \A c \in Conns :
        AnsweredJoin(c) =>
            /\ (ResponseOf(c) = JoinSuccess) <=> (served[c].ret = "true")
            /\ Member(served[c].pre, JoinId(c)) => ResponseOf(c) = AlreadyJoined

\* A step that is one call of add_peer by the thread that owns the Peer
AddPeerCall == (\E x \in ApiIds : ApiAddPeer(x)) \/ BootstrapAdd

\* C5: add_peer(x) for x that is not the local identity and not a member,
\* below capacity, returns true and grows the store by one entry for x; an
\* add_peer(x) for a member returns false and leaves the store as it is;
\* the store never holds two entries with the same identity.
C5_IdempotentAdd ==
    [][AddPeerCall =>
        LET x == lastAdd'.id IN
        /\ (/\ ~PeerId_eq(x, SelfId)
            /\ ~Member(peers, x)
            /\ Cardinality(peers) < MAX_PEERS)
           => /\ lastAdd'.ret
              /\ Member(peers', x)
              /\ Cardinality(peers') = Cardinality(peers) + 1
        /\ Member(peers, x) => (~lastAdd'.ret /\ peers' = peers)
        /\ UniqueIds(peers')]_vars

\* The second of two add_peer(PeerA) calls has returned
C5_Witness ==
    /\ lastAdd.by = "api"
    /\ PeerId_eq(lastAdd.id, PeerA)
    /\ ~lastAdd.ret
    /\ Member(peers, PeerA)
    /\ ~started

\* The connections clients have opened so far
Opened == {c \in Conns : conns[c].st # "unused"}

\* C6: when every connection opened so far (two or more) carried a Join
\* for a different identity, none of them the local one, the first of them
\* found the store empty and all have been handled, then every one was
\* answered "join success" and the store holds exactly that many entries.
C6_NoLostUpdates ==
    (/\ Cardinality(Opened) >= 2
     /\ mpc = "accept"
     /\ \A c \in Opened : served[c].end \in {"ok", "write_err"}
     /\ \A c \in Opened : served[c].req.tag = "Join" /\ ~PeerId_eq(JoinId(c), SelfId)
     /\ \A c, d \in Opened : c # d => ~PeerId_eq(JoinId(c), JoinId(d))
     /\ \E c \in Opened : served[c].pre = {})
    => /\ \A c \in Opened : served[c].end = "ok" => ResponseOf(c) = JoinSuccess
       /\ Cardinality(peers) = Cardinality(Opened)

\* C7: of two answered Join(x) for the same identity x, not the local one
\* and not a member before the first, exactly one had its add return true,
\* and the store holds x exactly once.
C7_SameIdentityJoins ==
    \A c, d \in Conns :
        (/\ c < d
         /\ AnsweredJoin(c)
         /\ AnsweredJoin(d)
         /\ PeerId_eq(JoinId(c), JoinId(d))
         /\ ~PeerId_eq(JoinId(c), SelfId)
         /\ ~Member(served[c].pre, JoinId(c)))
        => /\ (served[c].ret = "true") # (served[d].ret = "true")
           /\ Cardinality({e \in peers : PeerId_eq(e.id, JoinId(c))}) = 1

\* C8: once a connection's bytes failed to decode, or its worker's read or
\* write failed, the accept loop is still running: start has not returned
\* and the thread that runs it has not panicked.
C8_FailuresContained ==
    \A c \in Conns :
        served[c].end \in {"decode_panic", "read_err", "write_err"}
        => mpc \in {"accept", "join"}

\* C9: a send_ping to a peer whose node is live dials the peer's "ip:port"
\* and ends with Pong received.
C9_PingRoundTrip ==
    (lastPing.result # "none" /\ lastPing.live)
    => /\ DialAddress(lastPing.to) = PeerId_as_socket(lastPing.to)
       /\ lastPing.result = "Pong"

\* C10: a PeerStore request is answered with exactly the entries the store
\* held when it was handled, and the response a client holds stays that
\* whatever the store becomes afterwards.
C10_Snapshot ==
    \A c \in Conns :
        (served[c].end = "ok" /\ served[c].req.tag = "PeerStore")
        => /\ ResponseOf(c) = PeerStoreResp(served[c].pre)
           /\ Cardinality(ResponseOf(c).fields[1]) = Cardinality(served[c].pre)

\* A PeerStore request was answered from a store that held a peer, and the
\* store has gained an entry since
C10_Witness ==
    \E c \in Conns :
        /\ served[c].end = "ok"
        /\ served[c].req.tag = "PeerStore"
        /\ served[c].pre # {}
        /\ peers # served[c].pre
        /\ ResponseOf(c).fields[1] = served[c].pre

\* What resolve(d) is to give on the store as it is: the node itself, the
\* stored identity, or NoRoute(d)
Resolved(d) ==
    IF d = SelfId THEN Some(SelfId)
    ELSE IF d \in Ids(peers) THEN Some(d)
    ELSE NoRoute(d)

\* C11: the latest router(d) call returned the local identity when d is the
\* node itself, the stored identity when d is a member of the store, and
\* the failure NoRoute(d) when d is unknown (lastRoute is cleared by every
\* later change of the store, so the store is the one the call ran on).
C11_Routing ==
    lastRoute.called => lastRoute.result = Resolved(lastRoute.peer)

\* A line of the form ip:port whose port fits 16 bits, and the identity
\* it names
WellFormed(line) ==
    /\ line.ok
    /\ Len(line.text) = 3
    /\ line.text[1].kind = "ip"
    /\ line.text[2].kind = "colon"
    /\ line.text[3].kind = "num"
    /\ line.text[3].val \in 0..65535
EntryOf(line) == PeerId_new(line.text[1].val, line.text[3].val)

\* The distinct identities a file names, the local one left out
FileIds(file) ==
    {EntryOf(file[i]) : i \in {j \in 1..Len(file) : WellFormed(file[j])}} \ {SelfId}

\* C12: when bootstrap returns, its count is the number of add calls that
\* returned true, which is the number of distinct well-formed entries of
\* the file that are not the local identity and were not in the store
\* already (all of them on the empty store of a new Peer); duplicates and
\* entries naming the node add nothing; the store then holds exactly
\* those identities besides the ones it had; the documented three-line
\* example yields 2.
C12_BootstrapCount ==
    mpc = "bind" =>
        /\ count = Cardinality(FileIds(boot.file) \ Ids(boot.pre))
        /\ Ids(peers) = Ids(boot.pre) \cup FileIds(boot.file)
        /\ (boot.pre = {} => count = Cardinality(FileIds(boot.file)))
        /\ (boot.pre = {} /\ boot.file = ExampleFile => count = 2)

\* bootstrap has returned 2 for the documented example on a new Peer
C12_Witness ==
    /\ mpc = "bind"
    /\ boot.pre = {}
    /\ boot.file = ExampleFile
    /\ count = 2
    /\ Ids(peers) = {PeerA, PeerB}

\* C13: a malformed line of any kind (a wrong number of fields, or two
\* fields whose ip or port does not parse) only makes bootstrap skip that
\* line: bootstrap never ends in a panic with lines left unread.
C13_MalformedSkipped ==
    ~(mpc = "panicked" /\ lines # <<>>)

ReservedTags == {"QueryKey", "RespondKey", "Get", "SyncPeers"}
NotImplemented == ErrFail("not implemented")

\* C14: a QueryKey, RespondKey, Get or SyncPeers request is answered with
\* Err("not implemented") and its worker ends normally (a failed write of
\* that answer aside), so the accept loop goes on.
C14_ReservedRequests ==
    \A c \in Conns :
        (served[c].req.tag \in ReservedTags /\ conns[c].st = "closed") =>
            /\ served[c].end \in {"ok", "write_err"}
            /\ served[c].end = "ok" =>
                   /\ ResponseOf(c).tag = "Err"
                   /\ ResponseOf(c) = NotImplemented

\* C15: when the worker of a Leave(x) request has ended, x is not a member
\* of the store and the requester has been sent Response::Ok (a failed
\* write of that answer aside), whether or not x was a member before.
C15_LeaveRemoves ==
    (wpc = "exit" /\ served[wconn].req.tag = "Leave") =>
        /\ served[wconn].end \in {"ok", "write_err"}
        /\ served[wconn].end = "ok" => ResponseOf(wconn).tag = "Ok"
        /\ ~Member(peers, served[wconn].req.fields[1])

\* C16: the lock of the store is not held at a point of network I/O: not
\* by the worker when it writes its response, and not by send_pings
\* when it dials and waits for a peer.
C16_NoLockDuringIO ==
    /\ wpc = "respond" => lockHolder # "worker"
    /\ (mpc = "pinging" /\ pingTodo # {}) => lockHolder # "main"

\* C17: while the worker of one connection is blocked in its read (its
\* client has sent nothing yet), the node can accept a connection that
\* waits in the backlog.
C17_AcceptNotBlocked ==
    (/\ wpc = "read"
     /\ ~conns[wconn].sent
     /\ ~conns[wconn].reset
     /\ Queued # {}) => ENABLED (\E c \in Conns : Accept(c))

\* C18: every connection that was closed after its request decoded,
\* whatever the variant, has had its response written (a write that
\* failed aside); the model's worker has one write, after the dispatch,
\* which follows the read.
C18_OneExchange ==
    \A c \in Conns :
        (/\ conns[c].st = "closed"
         /\ served[c].req.tag # "DecodeError"
         /\ served[c].end # "write_err") => conns[c].out

\* C19: after add(x) for an x that was a member already (the add returned
\* false and x is not the node itself), the one entry of x has its
\* last_seen set.
C19_ReaddRefreshes ==
    (/\ lastAdd.by # "none"
     /\ ~lastAdd.ret
     /\ lastAdd.id # SelfId
     /\ Member(peers, lastAdd.id)) =>
        HashSet_get(peers, PeerStoreEntry_new(lastAdd.id)).last_seen # None

\* C20: bootstrap runs once, from the call of start, and to completion
\* before the listener is bound: while it reads its file nothing listens,
\* no connection exists, no worker runs or holds the lock and no request
\* has been handled; the listener is bound only from the step after
\* bootstrap returned, with no line left.
C20_BootstrapFirst ==
    /\ [](mpc = "bootstrap" =>
            /\ ~listening
            /\ wpc = "none"
            /\ lockHolder = "none"
            /\ \A c \in Conns : conns[c].st = "unused" /\ served[c] = NotServed)
    /\ [](listening => started /\ lines = <<>> /\ boot = NoBoot)
    /\ [][(mpc' = "bootstrap" /\ mpc # "bootstrap") => (mpc = "idle" /\ ~started)]_vars
    /\ [][(listening' /\ ~listening) => (mpc = "bind" /\ lines = <<>>)]_vars

\* bootstrap has added a peer and has lines left to read
C20_Witness ==
    /\ mpc = "bootstrap"
    /\ lines # <<>>
    /\ lastAdd.by = "bootstrap"
    /\ lastAdd.ret

ReadOnlyTags == {"Ping", "Identity", "List", "PeerStore"}

\* C21: once bootstrap has returned, the membership of the store changes
\* only in the dispatch of a Join request: the dispatch of a Ping,
\* Identity, List or PeerStore request, every step taken while send_pings
\* runs, and a call of router leave the set of stored identities as it
\* was.
C21_OnlyJoinMutates ==
    [][/\ (wpc = "dispatch" /\ wpc' # "dispatch" /\ wreq.tag \in ReadOnlyTags)
           => Ids(peers') = Ids(peers)
       /\ mpc \in {"pings", "pinging"} => Ids(peers') = Ids(peers)
       /\ (lastRoute'.called /\ lastRoute' # lastRoute) => Ids(peers') = Ids(peers)
       /\ (started /\ mpc \notin {"idle", "bootstrap"} /\ Ids(peers') # Ids(peers))
           => (wpc = "dispatch" /\ wreq.tag = "Join")]_vars

\* a Ping was answered by a node whose store has members
C21_Witness ==
    \E c \in Conns :
        /\ served[c].req.tag = "Ping"
        /\ served[c].end = "ok"
        /\ served[c].pre # {}
        /\ Ids(peers) = Ids(served[c].pre)

\* C22: the ping pass of a start with send_pings enabled does not end
\* start: the node is never back out of start, its listener dropped,
\* because a ping to a bootstrap peer failed.  (start is not called
\* again, so such a node never enters its accept loop.)
C22_PingsReachAccept ==
    ~(started /\ mpc = "idle" /\ ~listening /\ lastPing.result = "Err")

====
